---------------------------- MODULE Spec2Model ----------------------------
(***************************************************************************)
(* Task scheduling and address-space regions of the rCore tutorial kernel. *)
(*                                                                         *)
(* The source tree holds two generations of os/src/task:                   *)
(*   - the process kernel: task/manager.rs (stride ready queue),           *)
(*     task/processor.rs (current slot, run loop, mmap entry points) and   *)
(*     syscall/process.rs (fork, spawn, waitpid, set_priority);            *)
(*   - the batch task manager: task/mod.rs (a fixed task list with a       *)
(*     current index, round-robin run_next_task and its own                *)
(*     allocate_new_space).                                                *)
(* Both define suspend_current_and_run_next and friends, so exactly one of *)
(* them is linked into a kernel image.  task_mod records which one.        *)
(*                                                                         *)
(* Machine integers are scaled: isize has IsizeBits bits, and BIG_STRIDE   *)
(* is scaled with it, so that the overflow of a stride is within reach.    *)
(* An overflowing += panics in a build with overflow checks and wraps in a *)
(* build without; overflow_checks records which build runs.                *)
(***************************************************************************)
EXTENDS Integers, Sequences, FiniteSets

(***************************************************************************)
(* Bounds of the model.                                                    *)
(***************************************************************************)
\* process identities are 0 .. MaxPid (pid 0 is the initial process)
MaxPid == 2
\* number of applications of the batch task manager (get_num_app())
NumApp == 2

(***************************************************************************)
(* Program constants.                                                      *)
(***************************************************************************)
\* width of isize, scaled down from 64
IsizeBits == 4
\* config::BIG_STRIDE, scaled with IsizeBits
BIG_STRIDE == 4
\* priority a new TCB starts with (TaskControlBlock::new), scaled
INIT_PRIORITY == 2
\* config::PAGE_SIZE
PAGE_SIZE == 4096
\* Option::None of a task handle
NoTask == -1

ISIZE_MAX == 2 ^ (IsizeBits - 1) - 1
ISIZE_MIN == 0 - 2 ^ (IsizeBits - 1)

\* two's-complement wrap of a mathematical integer into isize
WrapIsize(x) == ((x - ISIZE_MIN) % (2 ^ IsizeBits)) + ISIZE_MIN

\* `pid as usize`: reinterpretation of an isize as an unsigned word
AsUsize(x) == x % (2 ^ IsizeBits)

Pids == 0 .. MaxPid

(***************************************************************************)
(* Inputs of the entry points.                                             *)
(***************************************************************************)
\* priorities passed to sys_set_priority
PrioInputs == {-1, 1, 2, 3, BIG_STRIDE + 1}
\* pid filters passed to sys_waitpid
WaitInputs == (-2 .. MaxPid) \cup {MaxPid + 1}
\* exit codes passed to sys_exit
ExitCodes == {0, 3}
\* values the timer (get_time_us, get_time_ms) returns
TimeVals == {0, 7}
\* contents of the caller's saved register x[10] (a0) when it enters sys_fork
A0Inputs == {0, 5}

VARIABLES
    task_mod,         \* "process" or "batch": the task module linked in
    overflow_checks,  \* TRUE: arithmetic overflow panics; FALSE: it wraps
    panicked,         \* the kernel has panicked
    ready_queue,      \* TaskManager.ready_queue (manager.rs): sequence of pids
    current,          \* Processor.current (processor.rs): a pid or NoTask
    status,           \* pid -> task status ("UnInit": no TCB with this pid)
    stride,           \* pid -> inner.stride
    pass,             \* pid -> inner.pass
    priority,         \* pid -> inner.priority
    children,         \* pid -> inner.children, a sequence of pids
    parent,           \* pid -> inner.parent (weak), a pid or NoTask
    exit_code,        \* pid -> inner.exit_code
    time,             \* pid -> inner.task_info.time
    regions,          \* pid -> mapped regions of inner.memory_set
    clock,            \* the value the timer returned last (it is monotonic)
    tm_started,       \* batch: run_first_task has run
    tm_current,       \* batch: TaskManagerInner.current_task, an index
    tm_status,        \* batch: index -> tasks[i].task_status
    tm_time,          \* batch: index -> tasks[i].first_reload_time (<<>>: None)
    tm_regions,       \* batch: index -> mapped regions of tasks[i].memory_set
    borrowed,         \* the UPSafeCells whose exclusive-access guard is held
    switch_held,      \* the guards that were held when __switch was last invoked
    last              \* the entry point that ran last, with its result

pvars == <<ready_queue, current, status, stride, pass, priority, children,
           parent, exit_code, time, regions>>
tvars == <<tm_started, tm_current, tm_status, tm_time, tm_regions>>
gvars == <<borrowed, switch_held>>
vars == <<task_mod, overflow_checks, panicked, clock, pvars, tvars, gvars, last>>

\* the record of an entry point's run: its name, its return value and what it
\* handed on: the exit code written through exit_code_ptr by waitpid, the
\* permission set passed to the memory set by an allocation, the saved x[10]
\* of the task that fork passes to add_task (<<>>: nothing)
Ran(op, ret, out) == [op |-> op, ret |-> ret, out |-> out]

(***************************************************************************)
(* manager.rs: the stride ready queue.                                     *)
(***************************************************************************)
\* inner.stride += inner.pass, as the machine computes it when it does not panic
AddStride(s, p) == WrapIsize(s + p)

\* the += overflows isize
AddOverflows(s, p) == s + p > ISIZE_MAX \/ s + p < ISIZE_MIN

\* (mutant) the scan also replaces its choice by an entry of equal stride
StrideLessEq(s, minv) == s <= minv

\* the comparison of the scan in fetch
StrideLess(s, minv) == s < minv

\* the start value of minv in fetch
FetchMinInit == ISIZE_MAX

\* the for loop of fetch from position i on: the index (1-based) of the chosen
\* entry, 0 for None
RECURSIVE FetchScan(_, _, _, _, _)
FetchScan(q, st, i, minv, minv_idx) ==
    IF i > Len(q) THEN minv_idx
    ELSE IF StrideLess(st[q[i]], minv)
         THEN FetchScan(q, st, i + 1, st[q[i]], i)
         ELSE FetchScan(q, st, i + 1, minv, minv_idx)

\* (mutant) the first entry is taken, as a FIFO queue does
FetchIdxFifo(q, st) == IF Len(q) = 0 THEN 0 ELSE 1

FetchIdx(q, st) == FetchScan(q, st, 1, FetchMinInit, 0)

\* (mutant) the entry is read but left in the vector
RemoveAtKeep(q, idx) == q

\* Vec::remove(idx)
RemoveAt(q, idx) == [j \in 1 .. (Len(q) - 1) |-> IF j < idx THEN q[j] ELSE q[j + 1]]

\* (mutant) the element is inserted at the front
PushFront(q, x) == <<x>> \o q

\* (mutant) the element is pushed twice
PushTwice(q, x) == Append(Append(q, x), x)

\* Vec::push
Push(q, x) == Append(q, x)

\* add() panics instead of returning (overflow-checked build)
AddPanics(s, p) == overflow_checks /\ AddOverflows(s, p)

(***************************************************************************)
(* Task control blocks.                                                    *)
(***************************************************************************)
Live == {p \in Pids : status[p] # "UnInit"}

\* number of owning handles (Arc strong count) of a TCB held by kernel data
\* structures: the ready queue, the current slot, children lists, INITPROC
Occurrences(q, p) == Cardinality({i \in 1 .. Len(q) : q[i] = p})

StrongCount(p) ==
    Occurrences(ready_queue, p)
    + (IF current = p THEN 1 ELSE 0)
    + (IF p = 0 THEN 1 ELSE 0)
    + Cardinality({<<o, i>> \in Pids \X (1 .. (MaxPid + 1)) :
                      i <= Len(children[o]) /\ children[o][i] = p})

\* pid_alloc(): an identity no TCB uses
AllocPid == CHOOSE p \in Pids \ Live : \A o \in Pids \ Live : p <= o

\* (mutant) the operands of the division are swapped
PassOfSwapped(prio) == prio \div BIG_STRIDE

\* pass of a priority
PassOf(prio) == BIG_STRIDE \div prio

(***************************************************************************)
(* Initial state: the kernel is up, the initial process has been created   *)
(* and add-ed, the run loop is about to start.                             *)
(***************************************************************************)
InitProcess ==
    /\ ready_queue = <<0>>
    /\ current = NoTask
    /\ status = [p \in Pids |-> IF p = 0 THEN "Ready" ELSE "UnInit"]
    /\ stride = [p \in Pids |-> IF p = 0 THEN AddStride(0, PassOf(INIT_PRIORITY)) ELSE 0]
    /\ pass = [p \in Pids |-> IF p = 0 THEN PassOf(INIT_PRIORITY) ELSE 0]
    /\ priority = [p \in Pids |-> IF p = 0 THEN INIT_PRIORITY ELSE 0]
    /\ children = [p \in Pids |-> <<>>]
    /\ parent = [p \in Pids |-> NoTask]
    /\ exit_code = [p \in Pids |-> 0]
    /\ time = [p \in Pids |-> 0]
    /\ regions = [p \in Pids |-> {}]

Apps == 0 .. (NumApp - 1)

InitBatch ==
    /\ tm_started = FALSE
    /\ tm_current = 0
    /\ tm_status = [i \in Apps |-> "Ready"]
    /\ tm_time = [i \in Apps |-> <<>>]
    /\ tm_regions = [i \in Apps |-> {}]

Init ==
    /\ task_mod \in {"process", "batch"}
    /\ overflow_checks \in BOOLEAN
    /\ panicked = FALSE
    /\ InitProcess
    /\ InitBatch
    /\ clock = 0
    /\ borrowed = {}
    /\ switch_held = {}
    /\ last = Ran("boot", 0, <<>>)

Config == UNCHANGED <<task_mod, overflow_checks>>

\* a handler that does not read the timer
NoTimer == UNCHANGED clock

\* a handler that returns to its caller: it invokes no __switch, and the guards
\* it takes are dropped when it returns
NoSwitch == UNCHANGED gvars

\* UPSafeCell::exclusive_access on a cell that is not borrowed, and the drop of
\* the guard it returns
Acquire(held, cell) == held \cup {cell}
Release(held, cell) == held \ {cell}

\* __switch is invoked with these guards held; they stay held while the other
\* flow runs
Switch(held) == switch_held' = held /\ borrowed' = held

\* the timer is read: it returns a value not before the one it returned last
TimerRead(now) == now \in TimeVals /\ now >= clock /\ clock' = now

Process == task_mod = "process" /\ ~panicked /\ UNCHANGED tvars

Batch == task_mod = "batch" /\ ~panicked /\ UNCHANGED pvars

\* a handler that panics: the kernel stops, nothing else is observable
Panic(op) ==
    /\ panicked' = TRUE
    /\ last' = Ran(op, 0, <<>>)
    /\ UNCHANGED <<pvars, tvars, gvars, clock>>

(***************************************************************************)
(* processor.rs: one iteration of the loop of run_tasks.                   *)
(***************************************************************************)
\* record_first_switch
RecordFirstSwitch(t, now) == IF time[t] = 0 THEN now ELSE time[t]

\* (mutant) the processor guard is still held at __switch
RunTasksHeldAtSwitchKeep(held) == Acquire(held, "PROCESSOR")

\* the guards held when run_tasks invokes __switch
RunTasksHeldAtSwitch(held) ==
    LET h1 == Acquire(held, "PROCESSOR")
        \* fetch_task: the guard of TASK_MANAGER lives inside the call
        h2 == Release(Acquire(h1, "TASK_MANAGER"), "TASK_MANAGER")
        \* record_first_switch: the guard of the task's inner lives inside the call
        h3 == Release(Acquire(h2, "task.inner"), "task.inner")
        \* task_inner, and drop(task_inner)
        h4 == Release(Acquire(h3, "task.inner"), "task.inner")
        \* drop(processor)
    IN Release(h4, "PROCESSOR")

\* (mutant) the processor guard outlives the iteration
RunTasksHeldAtRetryKeep(held) == Acquire(held, "PROCESSOR")

\* the guards held when an iteration that fetched nothing ends: processor goes
\* out of scope at the end of the loop body
RunTasksHeldAtRetry(held) ==
    LET h1 == Acquire(held, "PROCESSOR")
        h2 == Release(Acquire(h1, "TASK_MANAGER"), "TASK_MANAGER")
    IN Release(h2, "PROCESSOR")

run_tasks ==
    /\ Process
    /\ current = NoTask
    /\ IF "PROCESSOR" \in borrowed
       THEN \* PROCESSOR.exclusive_access() on a borrowed cell
            Panic("fetch")
       ELSE /\ LET idx == FetchIdx(ready_queue, stride) IN
               IF idx # 0
               THEN LET task == ready_queue[idx] IN
                    \E now \in TimeVals :
                       /\ IF time[task] = 0 THEN TimerRead(now)
                                             ELSE now = clock /\ UNCHANGED clock
                       /\ ready_queue' = RemoveAt(ready_queue, idx)
                       /\ time' = [time EXCEPT ![task] = RecordFirstSwitch(task, now)]
                       /\ status' = [status EXCEPT ![task] = "Running"]
                       /\ current' = task
                       /\ Switch(RunTasksHeldAtSwitch(borrowed))
                       /\ last' = Ran("fetch", task, <<>>)
                       /\ UNCHANGED <<stride, pass, priority, children, parent,
                                      exit_code, regions>>
               ELSE /\ last' = Ran("fetch", NoTask, <<>>)
                    /\ borrowed' = RunTasksHeldAtRetry(borrowed)
                    /\ UNCHANGED <<pvars, clock, switch_held>>
            /\ UNCHANGED panicked
    /\ Config

(***************************************************************************)
(* Creation and destruction of task control blocks.                        *)
(***************************************************************************)
\* f with the entries of the pids in F set back to d (their TCBs are gone)
Reset(f, F, d) == [p \in Pids |-> IF p \in F THEN d ELSE f[p]]

\* the elements of a sequence
Range(q) == {q[i] : i \in 1 .. Len(q)}

\* the new task of fork and spawn: a fresh TCB c, child of the caller, then
\* add_task(c).  mem is the region set of its address space, out what the
\* handler reports of the task it enqueues.
NewTask(op, c, mem, out) ==
    LET p0 == PassOf(INIT_PRIORITY) IN
    IF AddPanics(0, p0)
    THEN Panic(op)
    ELSE /\ status' = [status EXCEPT ![c] = "Ready"]
         /\ priority' = [priority EXCEPT ![c] = INIT_PRIORITY]
         /\ pass' = [pass EXCEPT ![c] = p0]
         /\ stride' = [stride EXCEPT ![c] = AddStride(0, p0)]
         /\ parent' = [parent EXCEPT ![c] = current]
         /\ children' = [children EXCEPT ![current] = Push(@, c)]
         /\ regions' = [regions EXCEPT ![c] = mem]
         /\ ready_queue' = Push(ready_queue, c)
         /\ last' = Ran(op, c, out)
         /\ UNCHANGED <<current, exit_code, time, panicked>>

(***************************************************************************)
(* syscall/process.rs                                                      *)
(***************************************************************************)
\* (mutant) the child keeps the x[10] copied from its parent
ForkChildA0Kept(a0) == a0

\* x[10] of the child's trap context, a copy of the parent's holding a0, after
\* trap_cx.x[10] = 0
ForkChildA0(a0) == 0

\* a0: x[10] of the caller's trap context, which fork() copies to the child
sys_fork(a0) ==
    /\ Process
    /\ current # NoTask
    /\ Pids \ Live # {}
    /\ NewTask("fork", AllocPid, regions[current], <<ForkChildA0(a0)>>)
    /\ Config
    /\ NoTimer
    /\ NoSwitch

\* (mutant) an image is returned whether or not the file was found
GetAppDataAlways(found) == TRUE

\* get_app_data_by_name returns Some: found is whether open_file finds the name
GetAppDataByName(found) == found

\* resolves: whether open_file finds the image named by _path
sys_spawn(resolves) ==
    /\ Process
    /\ current # NoTask
    /\ IF GetAppDataByName(resolves)
       THEN /\ Pids \ Live # {}
            /\ NewTask("spawn", AllocPid, {}, <<>>)
       ELSE /\ last' = Ran("spawn", -1, <<>>)
            /\ UNCHANGED <<pvars, panicked>>
    /\ Config
    /\ NoTimer
    /\ NoSwitch

\* (mutant) the filter -1 is not treated as "any child"
WaitMatchesNoAny(pid, c) == AsUsize(pid) = c

\* the closure of sys_waitpid: child c matches the filter pid
WaitMatches(pid, c) == pid = -1 \/ AsUsize(pid) = c

\* (mutant) the last matching zombie child is taken
WaitFindLast(kids, pid) ==
    LET hits == {i \in 1 .. Len(kids) :
                    status[kids[i]] = "Exited" /\ (pid = -1 \/ AsUsize(pid) = kids[i])}
    IN IF hits = {} THEN 0 ELSE CHOOSE i \in hits : \A j \in hits : i >= j

\* index of the first zombie child matching the filter, 0 if there is none
WaitFind(kids, pid) ==
    LET hits == {i \in 1 .. Len(kids) :
                    status[kids[i]] = "Exited" /\ WaitMatches(pid, kids[i])}
    IN IF hits = {} THEN 0 ELSE CHOOSE i \in hits : \A j \in hits : i <= j

sys_waitpid(pid) ==
    /\ Process
    /\ current # NoTask
    /\ LET kids == children[current]
           idx == WaitFind(kids, pid)
       IN IF ~ \E i \in 1 .. Len(kids) : WaitMatches(pid, kids[i])
          THEN /\ last' = Ran("waitpid", -1, <<>>)
               /\ UNCHANGED <<pvars, panicked>>
          ELSE IF idx = 0
          THEN /\ last' = Ran("waitpid", -2, <<>>)
               /\ UNCHANGED <<pvars, panicked>>
          ELSE LET child == kids[idx] IN
               IF StrongCount(child) # 1
               THEN Panic("waitpid")
               ELSE /\ children' = [children EXCEPT ![current] = RemoveAt(kids, idx)]
                    /\ last' = Ran("waitpid", child, <<exit_code[child]>>)
                    /\ status' = Reset(status, {child}, "UnInit")
                    /\ stride' = Reset(stride, {child}, 0)
                    /\ pass' = Reset(pass, {child}, 0)
                    /\ priority' = Reset(priority, {child}, 0)
                    /\ parent' = Reset(parent, {child}, NoTask)
                    /\ exit_code' = Reset(exit_code, {child}, 0)
                    /\ time' = Reset(time, {child}, 0)
                    /\ regions' = Reset(regions, {child}, {})
                    /\ UNCHANGED <<ready_queue, current, panicked>>
    /\ Config
    /\ NoTimer
    /\ NoSwitch

\* (mutant) priority 1 is accepted
PriorityRejectedBelowOne(prio) == prio < 1

\* the check of sys_set_priority that returns -1
PriorityRejected(prio) == prio < 2

sys_set_priority(prio) ==
    /\ Process
    /\ current # NoTask
    /\ IF PriorityRejected(prio)
       THEN /\ last' = Ran("set_priority", -1, <<>>)
            /\ UNCHANGED pvars
       ELSE /\ priority' = [priority EXCEPT ![current] = prio]
            /\ pass' = [pass EXCEPT ![current] = PassOf(prio)]
            /\ last' = Ran("set_priority", prio, <<>>)
            /\ UNCHANGED <<ready_queue, current, status, stride, children,
                           parent, exit_code, time, regions>>
    /\ UNCHANGED panicked
    /\ Config
    /\ NoTimer
    /\ NoSwitch

(***************************************************************************)
(* suspend_current_and_run_next and exit_current_and_run_next of the       *)
(* process kernel: the current task gives up the core and control returns  *)
(* to the run loop (schedule).                                             *)
(***************************************************************************)

\* the guards held when schedule invokes __switch: processor, drop(processor)
ScheduleHeld(held) == Release(Acquire(held, "PROCESSOR"), "PROCESSOR")

suspend_current_and_run_next ==
    /\ Process
    /\ current # NoTask
    /\ IF AddPanics(stride[current], pass[current])
       THEN Panic("suspend")
       ELSE /\ status' = [status EXCEPT ![current] = "Ready"]
            /\ stride' = [stride EXCEPT ![current] = AddStride(@, pass[current])]
            /\ ready_queue' = Push(ready_queue, current)
            /\ current' = NoTask
            /\ Switch(ScheduleHeld(borrowed))
            /\ last' = Ran("suspend", 0, <<>>)
            /\ UNCHANGED <<pass, priority, children, parent, exit_code, time,
                           regions, panicked>>
    /\ Config
    /\ NoTimer

exit_current_and_run_next(code) ==
    /\ Process
    /\ current # NoTask
    /\ LET task == current
           kids == Range(children[task])
           \* TCBs no handle is left to: zombie children, and the task itself
           \* when no parent's children list holds it
           gone == {c \in kids : status[c] = "Exited"}
                   \cup (IF parent[task] = NoTask /\ task # 0 THEN {task} ELSE {})
       IN /\ status' = Reset([status EXCEPT ![task] = "Exited"], gone, "UnInit")
          /\ exit_code' = Reset([exit_code EXCEPT ![task] = code], gone, 0)
          /\ children' = [children EXCEPT ![task] = <<>>]
          /\ parent' = Reset([p \in Pids |-> IF p \in kids THEN NoTask ELSE parent[p]],
                             gone, NoTask)
          /\ regions' = Reset([regions EXCEPT ![task] = {}], gone, {})
          /\ stride' = Reset(stride, gone, 0)
          /\ pass' = Reset(pass, gone, 0)
          /\ priority' = Reset(priority, gone, 0)
          /\ time' = Reset(time, gone, 0)
          /\ current' = NoTask
          /\ Switch(ScheduleHeld(borrowed))
          /\ last' = Ran("exit", 0, <<>>)
          /\ UNCHANGED <<ready_queue, panicked>>
    /\ Config
    /\ NoTimer

(***************************************************************************)
(* Address-space regions.  A region is [s, e): page numbers, with a        *)
(* permission set.  The memory set's own allocate_new_space and            *)
(* deallocate_space are in os/src/mm.                                      *)
(***************************************************************************)
\* start addresses, lengths and permission bits passed to mmap and munmap:
\* every combination at page 1 (aligned or not), one request at page 3
StartInputs == {PAGE_SIZE, PAGE_SIZE + 1, 3 * PAGE_SIZE}
LenInputs == {1, 2 * PAGE_SIZE}
PortInputs == 0 .. 8
MmapInputs == {x \in StartInputs \X LenInputs \X PortInputs :
                  x[1] = 3 * PAGE_SIZE => (x[2] = 1 /\ x[3] \in {0, 1, 8})}
MunmapInputs == {x \in StartInputs \X (LenInputs \cup {3 * PAGE_SIZE}) :
                    x[1] = 3 * PAGE_SIZE => x[2] = 1}

\* VirtAddr::floor and VirtAddr::ceil
VpnFloor(a) == a \div PAGE_SIZE
VpnCeil(a) == (a + PAGE_SIZE - 1) \div PAGE_SIZE

\* VirtAddr::aligned
Aligned(a) == a % PAGE_SIZE = 0

\* port & mask, for a mask of one bit
BitAnd(port, mask) == ((port \div mask) % 2) * mask

\* the two checks of the permission bits: port & !0x7 != 0, port & 0x7 == 0
PortRejected(port) == (port \div 8) # 0 \/ (port % 8) = 0

\* MemorySet::allocate_new_space: the region set after the call, and its result
MemAllocate(rs, start, len, perm) ==
    LET s0 == VpnFloor(start)
        e0 == VpnCeil(start + len)
    IN IF \E r \in rs : r.s < e0 /\ s0 < r.e
       THEN [ret |-> -1, rs |-> rs]
       ELSE [ret |-> 0, rs |-> rs \cup {[s |-> s0, e |-> e0, perm |-> perm]}]

\* (mutant) the pages are unmapped but the region records are kept
MemDeallocateKeep(rs, start, len) == [ret |-> 0, rs |-> rs]

\* MemorySet::deallocate_space
MemDeallocate(rs, start, len) ==
    LET s0 == VpnFloor(start)
        e0 == VpnCeil(start + len)
        inside == {r \in rs : s0 <= r.s /\ r.e <= e0}
        pages == UNION {r.s .. (r.e - 1) : r \in inside}
    IN IF pages = s0 .. (e0 - 1) /\ \A r \in rs \ inside : ~(r.s < e0 /\ s0 < r.e)
       THEN [ret |-> 0, rs |-> rs \ inside]
       ELSE [ret |-> -1, rs |-> rs]

(***************************************************************************)
(* processor.rs: user_allocate_new_space and user_deallocate_space, called *)
(* by sys_mmap and sys_munmap (syscall/process.rs).                        *)
(***************************************************************************)
\* the permission set built from the bits
UserPermission(port) ==
    (IF BitAnd(port, 1) # 0 THEN {"R"} ELSE {})
    \cup (IF BitAnd(port, 2) # 0 THEN {"W"} ELSE {})
    \cup (IF BitAnd(port, 4) # 0 THEN {"X"} ELSE {})
    \cup {"U"}

\* (mutant) the alignment of start is not checked
UserAllocateRejectsNoAlign(start, port) == PortRejected(port)

\* the checks that return -1 before the memory set is touched
UserAllocateRejects(start, port) == PortRejected(port) \/ ~Aligned(start)

sys_mmap(start, len, port) ==
    /\ Process
    /\ current # NoTask
    /\ IF UserAllocateRejects(start, port)
       THEN /\ last' = Ran("mmap", -1, <<>>)
            /\ UNCHANGED pvars
       ELSE LET r == MemAllocate(regions[current], start, len, UserPermission(port)) IN
            /\ regions' = [regions EXCEPT ![current] = r.rs]
            /\ last' = Ran("mmap", r.ret, <<UserPermission(port)>>)
            /\ UNCHANGED <<ready_queue, current, status, stride, pass, priority,
                           children, parent, exit_code, time>>
    /\ UNCHANGED panicked
    /\ Config
    /\ NoTimer
    /\ NoSwitch

sys_munmap(start, len) ==
    /\ Process
    /\ current # NoTask
    /\ IF ~Aligned(start)
       THEN /\ last' = Ran("munmap", -1, <<>>)
            /\ UNCHANGED pvars
       ELSE LET r == MemDeallocate(regions[current], start, len) IN
            /\ regions' = [regions EXCEPT ![current] = r.rs]
            /\ last' = Ran("munmap", r.ret, <<>>)
            /\ UNCHANGED <<ready_queue, current, status, stride, pass, priority,
                           children, parent, exit_code, time>>
    /\ UNCHANGED panicked
    /\ Config
    /\ NoTimer
    /\ NoSwitch

(***************************************************************************)
(* task/mod.rs: the batch task manager.                                    *)
(***************************************************************************)
\* the guards held when run_first_task invokes __switch: inner, drop(inner)
RunFirstTaskHeld(held) == Release(Acquire(held, "TASK_MANAGER.inner"), "TASK_MANAGER.inner")

tm_run_first_task ==
    /\ Batch
    /\ ~tm_started
    /\ tm_started' = TRUE
    /\ tm_status' = [tm_status EXCEPT ![0] = "Running"]
    /\ Switch(RunFirstTaskHeld(borrowed))
    /\ last' = Ran("run_first_task", 0, <<>>)
    /\ UNCHANGED <<tm_current, tm_time, tm_regions, panicked>>
    /\ Config
    /\ NoTimer

\* (mutant) the current task is returned when no task is Ready
FindNextTaskOrCurrent(st) ==
    LET order == [k \in 1 .. NumApp |-> (tm_current + k) % NumApp]
        hits == {k \in 1 .. NumApp : st[order[k]] = "Ready"}
    IN IF hits = {} THEN tm_current
       ELSE order[CHOOSE k \in hits : \A j \in hits : k <= j]

\* find_next_task over the statuses st: the index found, NumApp for None
FindNextTask(st) ==
    LET order == [k \in 1 .. NumApp |-> (tm_current + k) % NumApp]
        hits == {k \in 1 .. NumApp : st[order[k]] = "Ready"}
    IN IF hits = {} THEN NumApp
       ELSE order[CHOOSE k \in hits : \A j \in hits : k <= j]

\* the guards held when run_next_task invokes __switch: the guard inside
\* find_next_task, then inner, drop(inner)
RunNextTaskHeld(held) ==
    LET h1 == Release(Acquire(held, "TASK_MANAGER.inner"), "TASK_MANAGER.inner")
    IN Release(Acquire(h1, "TASK_MANAGER.inner"), "TASK_MANAGER.inner")

\* run_next_task, the statuses being st after the current task was marked
RunNextTask(op, st) ==
    LET next == FindNextTask(st) IN
    IF next = NumApp
    THEN /\ panicked' = TRUE
         /\ last' = Ran(op, 0, <<>>)
         /\ UNCHANGED <<tvars, gvars, clock>>
    ELSE /\ tm_status' = [st EXCEPT ![next] = "Running"]
         /\ tm_current' = next
         /\ Switch(RunNextTaskHeld(borrowed))
         /\ \E now \in TimeVals :
               IF tm_time[next] = <<>>
               THEN TimerRead(now) /\ tm_time' = [tm_time EXCEPT ![next] = <<now>>]
               ELSE now = clock /\ UNCHANGED <<clock, tm_time>>
         /\ last' = Ran(op, next, <<>>)
         /\ UNCHANGED <<tm_started, tm_regions, panicked>>

\* (mutant) the task that yields is left Running
MarkCurrentSuspendedKeep(st) == st

\* mark_current_suspended
MarkCurrentSuspended(st) == [st EXCEPT ![tm_current] = "Ready"]

\* mark_current_exited
MarkCurrentExited(st) == [st EXCEPT ![tm_current] = "Exited"]

tm_suspend_current_and_run_next ==
    /\ Batch
    /\ tm_started
    /\ RunNextTask("suspend", MarkCurrentSuspended(tm_status))
    /\ Config

tm_exit_current_and_run_next ==
    /\ Batch
    /\ tm_started
    /\ RunNextTask("exit", MarkCurrentExited(tm_status))
    /\ Config

\* the permission set TaskManager::allocate_new_space builds from the bits
TmPermission(port) ==
    (IF BitAnd(port, 1) = 1 THEN {"R"} ELSE {})
    \cup (IF BitAnd(port, 2) = 1 THEN {"W"} ELSE {})
    \cup (IF BitAnd(port, 4) = 1 THEN {"X"} ELSE {})

TmAllocateRejects(start, port) == PortRejected(port) \/ ~Aligned(start)

tm_allocate_new_space(start, len, port) ==
    /\ Batch
    /\ tm_started
    /\ IF TmAllocateRejects(start, port)
       THEN /\ last' = Ran("mmap", -1, <<>>)
            /\ UNCHANGED tvars
       ELSE LET r == MemAllocate(tm_regions[tm_current], start, len, TmPermission(port)) IN
            /\ tm_regions' = [tm_regions EXCEPT ![tm_current] = r.rs]
            /\ last' = Ran("mmap", r.ret, <<TmPermission(port)>>)
            /\ UNCHANGED <<tm_started, tm_current, tm_status, tm_time>>
    /\ UNCHANGED panicked
    /\ Config
    /\ NoTimer
    /\ NoSwitch

tm_deallocate_space(start, len) ==
    /\ Batch
    /\ tm_started
    /\ IF ~Aligned(start)
       THEN /\ last' = Ran("munmap", -1, <<>>)
            /\ UNCHANGED tvars
       ELSE LET r == MemDeallocate(tm_regions[tm_current], start, len) IN
            /\ tm_regions' = [tm_regions EXCEPT ![tm_current] = r.rs]
            /\ last' = Ran("munmap", r.ret, <<>>)
            /\ UNCHANGED <<tm_started, tm_current, tm_status, tm_time>>
    /\ UNCHANGED panicked
    /\ Config
    /\ NoTimer
    /\ NoSwitch

(***************************************************************************)
(* Specifications.                                                         *)
(*   Spec:    the life of tasks: creation, dispatch, suspension, exit and  *)
(*            reaping, every task keeping the pass it was created with.    *)
(*   SpecSched: the stride arithmetic: processes that fork, change their   *)
(*            priorities and take turns, none of them exiting.             *)
(*   SpecMem: the address-space regions, under a workload of at most two   *)
(*            processes that run one after the other.                      *)
(***************************************************************************)
Next ==
    \/ run_tasks
    \/ \E a0 \in A0Inputs : sys_fork(a0)
    \/ \E resolves \in BOOLEAN : sys_spawn(resolves)
    \/ \E pid \in WaitInputs : sys_waitpid(pid)
    \/ suspend_current_and_run_next
    \/ \E code \in ExitCodes : exit_current_and_run_next(code)
    \/ tm_run_first_task
    \/ tm_suspend_current_and_run_next
    \/ tm_exit_current_and_run_next

NextSched ==
    \/ run_tasks
    \/ \E a0 \in A0Inputs : sys_fork(a0)
    \/ \E prio \in PrioInputs : sys_set_priority(prio)
    \/ suspend_current_and_run_next

NextMem ==
    \/ run_tasks
    \/ \E a0 \in A0Inputs : sys_fork(a0) /\ Live = {0}
    \/ \E code \in ExitCodes : exit_current_and_run_next(code)
    \/ \E x \in MmapInputs : sys_mmap(x[1], x[2], x[3])
    \/ \E x \in MunmapInputs : sys_munmap(x[1], x[2])
    \/ tm_run_first_task
    \/ tm_suspend_current_and_run_next
    \/ tm_exit_current_and_run_next
    \/ \E x \in MmapInputs : tm_allocate_new_space(x[1], x[2], x[3])
    \/ \E x \in MunmapInputs : tm_deallocate_space(x[1], x[2])

Spec == Init /\ [][Next]_vars

SpecSched == Init /\ [][NextSched]_vars

SpecMem == Init /\ [][NextMem]_vars

\* the priorities a task can have: the one it is created with and those
\* sys_set_priority accepts
AcceptedPriorities == {INIT_PRIORITY} \cup {prio \in PrioInputs : ~PriorityRejected(prio)}

\* the orders in which the tasks of T can have been add-ed
QueueOrders(T) ==
    {q \in [1 .. Cardinality(T) -> T] : \A i, j \in 1 .. Cardinality(T) : q[i] = q[j] => i = j}

\* a fixed set T of tasks, each created with stride 0 and given a priority,
\* has been add-ed once, in any order, and the run loop is about to start
InitStride ==
    /\ task_mod = "process"
    /\ overflow_checks \in BOOLEAN
    /\ panicked = FALSE
    /\ \E T \in (SUBSET Pids) \ {{}} :
          \E pr \in [T -> AcceptedPriorities] :
             /\ ready_queue \in QueueOrders(T)
             /\ status = [p \in Pids |-> IF p \in T THEN "Ready" ELSE "UnInit"]
             /\ priority = [p \in Pids |-> IF p \in T THEN pr[p] ELSE 0]
             /\ pass = [p \in Pids |-> IF p \in T THEN PassOf(pr[p]) ELSE 0]
             /\ stride = [p \in Pids |-> IF p \in T THEN AddStride(0, PassOf(pr[p])) ELSE 0]
    /\ current = NoTask
    /\ children = [p \in Pids |-> <<>>]
    /\ parent = [p \in Pids |-> NoTask]
    /\ exit_code = [p \in Pids |-> 0]
    /\ time = [p \in Pids |-> 0]
    /\ regions = [p \in Pids |-> {}]
    /\ InitBatch
    /\ clock = 0
    /\ borrowed = {}
    /\ switch_held = {}
    /\ last = Ran("boot", 0, <<>>)

NextStride ==
    \/ run_tasks
    \/ \E prio \in PrioInputs : sys_set_priority(prio)
    \/ suspend_current_and_run_next

\* the stride arithmetic over a fixed set of tasks that take turns
SpecStride == InitStride /\ [][NextStride]_vars

\* SpecSched under the scheduling the kernel guarantees: the loop of run_tasks
\* never ends, so an iteration that can be taken is taken, and a task that
\* runs gives up the core in the end (the timer interrupt suspends it)
SpecSchedFair ==
    /\ SpecSched
    /\ WF_vars(run_tasks)
    /\ WF_vars(suspend_current_and_run_next)
(***************************************************************************)
(* Properties of the ready queue (manager.rs).                             *)
(***************************************************************************)
\* run_tasks has just fetched a task
Fetched == last.op = "fetch" /\ last.ret # NoTask

\* add has put task t into the ready queue in this step
Added(t) == t \notin Range(ready_queue) /\ t \in Range(ready_queue')

\* stride of t when add is entered: a TCB made in this step starts at 0
StrideBefore(t) == IF status[t] = "UnInit" THEN 0 ELSE stride[t]

C2_EmptyOnlyWhenQueueEmpty ==
    [][(last'.op = "fetch" /\ run_tasks) =>
          IF ready_queue = <<>>
          THEN last'.ret = NoTask /\ ready_queue' = ready_queue
          ELSE /\ last'.ret \in Range(ready_queue)
               /\ Len(ready_queue') = Len(ready_queue) - 1
               /\ last'.ret \notin Range(ready_queue')]_vars

\* C3 as stated: every add increases the stride of the task by exactly its
\* pass, as integers, and appends the task to the ready queue.
C3_AddAlwaysAddsPass ==
    [][\A t \in Pids :
          Added(t) => /\ stride'[t] = StrideBefore(t) + pass'[t]
                      /\ ready_queue' = Append(ready_queue, t)]_vars

\* C3, what add does in every case: an add whose sum stride + pass fits isize
\* increases the stride by exactly pass and appends the task; a sum beyond
\* isize::MAX wraps by 2^bits in a build without overflow checks, and in a
\* build with them the handler panics and nothing is enqueued.  A task's pass
\* changes only in set_priority, so two adds with no priority change between
\* them charge the same pass.
C3_AddAddsPassUnlessOverflow ==
    [][/\ \A t \in Pids :
             Added(t) =>
                /\ ready_queue' = Append(ready_queue, t)
                /\ ~panicked'
                /\ IF StrideBefore(t) + pass'[t] <= ISIZE_MAX
                   THEN stride'[t] = StrideBefore(t) + pass'[t]
                   ELSE /\ ~overflow_checks
                        /\ stride'[t] = StrideBefore(t) + pass'[t] - 2 ^ IsizeBits
       /\ \A t \in Pids :
             (status[t] # "UnInit" /\ status'[t] # "UnInit" /\ pass'[t] # pass[t])
                => last'.op = "set_priority"
       /\ (panicked' /\ ~panicked) => ready_queue' = ready_queue]_vars

\* C4: a task is in the ready queue at most once; it enters the queue only by
\* an add (suspend, fork, spawn), from then on stays in the queue that fetch
\* scans until a fetch returns it, and the task a fetch returns was in the
\* queue before and is not in it after.
C4_QueueOrdering ==
    [][/\ \A i, j \in 1 .. Len(ready_queue') :
             ready_queue'[i] = ready_queue'[j] => i = j
       /\ \A t \in Pids :
             /\ Added(t) => last'.op \in {"suspend", "fork", "spawn"}
             /\ (t \in Range(ready_queue) /\ t \notin Range(ready_queue'))
                   => (last'.op = "fetch" /\ last'.ret = t)
             /\ (last'.op = "fetch" /\ last'.ret = t)
                   => (t \in Range(ready_queue) /\ t \notin Range(ready_queue'))]_vars

\* C4 witness: the initial process has been fetched, suspended (add-ed again)
\* and fetched once more, while two tasks it created wait in the queue.
C4_Witness ==
    /\ Fetched
    /\ last.ret = 0
    /\ stride[0] >= 2
    /\ Len(ready_queue) = 2

(***************************************************************************)
(* Properties of sys_set_priority (syscall/process.rs).                    *)
(***************************************************************************)
\* C5: set_priority(p) with p < 2 returns a negative result and leaves the
\* priority, pass and stride of the current task (and of every task) unchanged.
C5_LowPriorityRejected ==
    [][\A prio \in PrioInputs :
          (prio < 2 /\ sys_set_priority(prio)) =>
             /\ last'.ret < 0
             /\ priority' = priority
             /\ pass' = pass
             /\ stride' = stride]_vars

\* C5 witness: set_priority has been rejected for a running task whose pass
\* and stride are not zero.
C5_Witness ==
    /\ last.op = "set_priority"
    /\ last.ret = -1
    /\ current # NoTask
    /\ pass[current] > 0
    /\ stride[current] > 0

\* C6: set_priority(p) with p >= 2 sets the pass of the current task to
\* BIG_STRIDE / p (integer division) in the same step, leaves its stride
\* untouched and changes no other task's priority, pass or stride.
C6_PriorityAccepted ==
    [][\A prio \in PrioInputs :
          (prio >= 2 /\ sys_set_priority(prio)) =>
             /\ pass'[current] * prio <= BIG_STRIDE
             /\ BIG_STRIDE < (pass'[current] + 1) * prio
             /\ priority'[current] = prio
             /\ stride' = stride
             /\ \A t \in Pids \ {current} :
                   priority'[t] = priority[t] /\ pass'[t] = pass[t]]_vars

\* C6 witness: a running task with stride above zero has been given priority
\* 3, which makes its pass 1, while another task waits in the queue.
C6_Witness ==
    /\ last.op = "set_priority"
    /\ last.ret = 3
    /\ current # NoTask
    /\ pass[current] = 1
    /\ stride[current] > 0
    /\ ready_queue # <<>>

(***************************************************************************)
(* Properties of sys_waitpid (syscall/process.rs).                         *)
(***************************************************************************)
\* positions in the caller's children list that the filter pid selects
WaitMatching(pid) ==
    {i \in 1 .. Len(children[current]) : pid = -1 \/ pid = children[current][i]}

\* the step is sys_waitpid(pid)
WaitStep(pid) == last'.op = "waitpid" /\ sys_waitpid(pid)

\* those of them whose child has exited
WaitExited(pid) == {i \in WaitMatching(pid) : status[children[current][i]] = "Exited"}

\* C7: wait(pid) returns -1 exactly when no child of the caller matches the
\* filter (-1 matches any child) and -2 exactly when a child matches but no
\* matching child has exited; in both cases the children list is unchanged and
\* no exit code is written.
C7_WaitFailures ==
    [][\A pid \in WaitInputs :
          WaitStep(pid) =>
             /\ (last'.ret = -1) <=> (WaitMatching(pid) = {})
             /\ (last'.ret = -2) <=> (WaitMatching(pid) # {} /\ WaitExited(pid) = {})
             /\ (last'.ret \in {-1, -2}) =>
                   (children' = children /\ last'.out = <<>> /\ status' = status)]_vars

\* C7 witness: wait has returned -2 to a caller one of whose children has
\* exited (the filter named another child, which has not).
C7_Witness ==
    /\ last.op = "waitpid"
    /\ last.ret = -2
    /\ current # NoTask
    /\ \E i \in 1 .. Len(children[current]) : status[children[current][i]] = "Exited"

\* C8: when a matching child has exited, wait removes the first such child of
\* the children list and no other, writes that child's exit code to the output
\* and returns its pid, without panicking; wait(-1) of a caller without
\* children returns -1.
C8_WaitReaps ==
    [][\A pid \in WaitInputs :
          WaitStep(pid) =>
             /\ WaitExited(pid) # {} =>
                   LET kids == children[current]
                       i0 == CHOOSE i \in WaitExited(pid) : \A j \in WaitExited(pid) : i <= j
                   IN /\ ~panicked'
                      /\ last'.ret = kids[i0]
                      /\ last'.out = <<exit_code[kids[i0]]>>
                      /\ Len(children'[current]) = Len(kids) - 1
                      /\ \A j \in 1 .. Len(kids) :
                            j # i0 => children'[current][IF j < i0 THEN j ELSE j - 1] = kids[j]
                      /\ \A t \in Pids \ {current} : children'[t] = children[t]
             /\ (pid = -1 /\ children[current] = <<>>) => last'.ret = -1]_vars

\* C8 witness: wait has reaped a child whose exit code is 3, and the caller
\* keeps another child, which has exited too.
C8_Witness ==
    /\ last.op = "waitpid"
    /\ last.ret >= 0
    /\ last.out = <<3>>
    /\ current # NoTask
    /\ \E i \in 1 .. Len(children[current]) : status[children[current][i]] = "Exited"

(***************************************************************************)
(* Properties of the allocation of regions (processor.rs, task/mod.rs).    *)
(***************************************************************************)
\* a request that the claim says is rejected
BadRequest(start, port) == start % 4096 # 0 \/ port >= 8 \/ port % 8 = 0

\* the step is an allocation with these arguments, by either task module
Allocates(start, len, port) ==
    /\ last'.op = "mmap"
    /\ sys_mmap(start, len, port) \/ tm_allocate_new_space(start, len, port)

\* C9: allocate(start, len, bits) returns a negative result and changes no
\* region set when start is not page-aligned, when bits has a bit outside the
\* low three, or when none of the low three bits is set.
C9_AllocateRejects ==
    [][LET Rejected == /\ last'.ret < 0
                       /\ last'.out = <<>>
                       /\ regions' = regions
                       /\ tm_regions' = tm_regions
       IN \* every step that is an allocation with a bad request is Rejected
          Rejected \/ \A x \in MmapInputs :
                         ~(BadRequest(x[1], x[3]) /\ Allocates(x[1], x[2], x[3]))]_vars

\* C9 witness: an allocation has been rejected before reaching the memory set
\* of a task that holds a region.
C9_Witness ==
    /\ last.op = "mmap"
    /\ last.ret = -1
    /\ last.out = <<>>
    /\ \/ task_mod = "process" /\ current # NoTask /\ regions[current] # {}
       \/ task_mod = "batch" /\ tm_regions[tm_current] # {}

\* the permission set the bits ask for, with the User bit
RequestedPermission(port) ==
    {"U"} \cup (IF port % 2 = 1 THEN {"R"} ELSE {})
          \cup (IF (port \div 2) % 2 = 1 THEN {"W"} ELSE {})
          \cup (IF (port \div 4) % 2 = 1 THEN {"X"} ELSE {})

\* C10: every allocation that passes the checks hands to the memory set
\* exactly the permissions its bits ask for (R: bit 0, W: bit 1, X: bit 2)
\* plus User.
C10_PermissionsAsRequested ==
    [][\A x \in MmapInputs :
          (~BadRequest(x[1], x[3]) /\ Allocates(x[1], x[2], x[3])) =>
             last'.out = <<RequestedPermission(x[3])>>]_vars

(***************************************************************************)
(* Properties of the pair allocate / deallocate.                           *)
(***************************************************************************)
\* the step is a deallocation with these arguments, by either task module
Deallocates(start, len) ==
    /\ last'.op = "munmap"
    /\ sys_munmap(start, len) \/ tm_deallocate_space(start, len)

\* the region set of the task the processor (the batch manager) runs
CurrentRegions == IF task_mod = "process" THEN regions[current] ELSE tm_regions[tm_current]

\* C11: after a successful allocate(start, len, perms), deallocate(start, len)
\* on the same task succeeds and gives back the region set the task had before
\* the allocate; a deallocation does to the current task's region set what the
\* memory set's deallocate_space returns; and no allocate or deallocate changes
\* which task is current or the region set of any other task.
C11_RegionRoundTrip ==
    [][(last'.op \in {"mmap", "munmap"}) =>
          /\ current' = current
          /\ tm_current' = tm_current
          /\ \A t \in Pids \ {current} : regions'[t] = regions[t]
          /\ \A i \in Apps \ {tm_current} : tm_regions'[i] = tm_regions[i]
          /\ (last'.op = "mmap" /\ last'.ret = 0) =>
                \A x \in MmapInputs :
                   Allocates(x[1], x[2], x[3]) =>
                      MemDeallocate(CurrentRegions', x[1], x[2])
                         = [ret |-> 0, rs |-> CurrentRegions]
          /\ (last'.op = "munmap" /\ last'.ret = 0) =>
                \A x \in MunmapInputs :
                   Deallocates(x[1], x[2]) =>
                      CurrentRegions' = MemDeallocate(CurrentRegions, x[1], x[2]).rs]_vars

\* C11 witness: a process that holds a region at page 3 has allocated two
\* pages at page 1 and deallocated them again, while another process holds a
\* region of its own.
C11_Witness ==
    /\ task_mod = "process"
    /\ last.op = "munmap"
    /\ last.ret = 0
    /\ current # NoTask
    /\ \E r \in regions[current] : r.s = 3
    /\ \A r \in regions[current] : r.s # 1
    /\ \E t \in Pids \ {current} : \E r \in regions[t] : r.s = 1 /\ r.e = 3

(***************************************************************************)
(* Properties of sys_fork and sys_spawn (syscall/process.rs).              *)
(***************************************************************************)
\* the step is sys_fork, whatever the caller's registers hold
ForkStep == last'.op = "fork" /\ \E a0 \in A0Inputs : sys_fork(a0)

\* C12: fork returns to the parent the identity of the child, an identity no
\* live task has; the child it passes to add_task has 0 in its saved
\* return-value register x[10]; and the child is appended to the ready queue,
\* where it occurs exactly once.
C12_ForkReturns ==
    [][ForkStep =>
          LET c == last'.ret IN
          /\ c \in Pids \ Live
          /\ status'[c] # "UnInit"
          /\ \A t \in Live : status'[t] # "UnInit"
          /\ last'.out = <<0>>
          /\ ready_queue' = Append(ready_queue, c)
          /\ Occurrences(ready_queue', c) = 1]_vars

\* C12 witness: fork has returned an identity that an earlier task, reaped
\* since, had carried, while two other tasks are live.
C12_Witness ==
    /\ last.op = "fork"
    /\ last.ret = 1
    /\ last.out = <<0>>
    /\ Cardinality(Live) = 3
    /\ parent[1] = 2

\* C13: spawn with a name the image loader cannot resolve returns a negative
\* result without panicking and changes nothing: no TCB is created, no
\* children list and no field of any task changes, the ready queue and the
\* current slot stay as they are.
C13_SpawnUnresolved ==
    [][(last'.op = "spawn" /\ sys_spawn(FALSE)) =>
          /\ last'.ret < 0
          /\ ~panicked'
          /\ pvars' = pvars]_vars

\* C13 witness: spawn has failed for a caller that has a child, while a task
\* waits in the ready queue.
C13_Witness ==
    /\ last.op = "spawn"
    /\ last.ret = -1
    /\ ~panicked
    /\ current # NoTask
    /\ children[current] # <<>>
    /\ ready_queue # <<>>

\* C14: a successful spawn creates exactly one task, with an identity no live
\* task has and an address space of its own; it appends the task to the end
\* of the caller's children list and changes no other children list, sets the
\* task's parent to the caller, appends it to the ready queue, where it occurs
\* once, and returns its identity; after the return the task has two owners,
\* the caller's children list and the ready queue.
C14_SpawnCreates ==
    [][(last'.op = "spawn" /\ sys_spawn(TRUE) /\ ~panicked') =>
          \A c \in Pids :
             last'.ret = c =>
                /\ c \notin Live
                /\ {t \in Pids : status'[t] # "UnInit"} = Live \cup {c}
                /\ regions'[c] = {}
                /\ children'[current] = Append(children[current], c)
                /\ \A t \in Pids \ {current} : children'[t] = children[t]
                /\ parent'[c] = current
                /\ ready_queue' = Append(ready_queue, c)
                /\ Occurrences(ready_queue', c) = 1
                /\ current' = current
                /\ current # c
                /\ StrongCount(c)' = 2]_vars

\* C14 witness: spawn has returned the identity of a second child of the
\* caller, which is the last entry of the ready queue behind another task.
C14_Witness ==
    /\ last.op = "spawn"
    /\ last.ret >= 0
    /\ ~panicked
    /\ current # NoTask
    /\ Len(children[current]) = 2
    /\ children[current][2] = last.ret
    /\ Len(ready_queue) = 2
    /\ ready_queue[2] = last.ret
    /\ regions[current] = {}

(***************************************************************************)
(* Properties of the run loop and of the switch of contexts.               *)
(***************************************************************************)
\* the last iteration of the run loop found no task to run
RunLoopIdle ==
    task_mod = "process" /\ ~panicked /\ last.op = "fetch" /\ last.ret = NoTask

\* C15: an iteration of the run loop that finds no ready task does not stop
\* the kernel: it reports (returns to the head of the loop with nothing
\* fetched), holds no guard of the processor when it ends, leaves the current
\* slot empty, and the loop can take its next iteration, which is again a
\* fetch that acquires the processor and does not panic.
C15_RunLoopRetries ==
    /\ [](RunLoopIdle => ENABLED run_tasks)
    /\ [][(last'.op = "fetch" /\ last'.ret = NoTask /\ run_tasks) =>
             /\ ~panicked'
             /\ "PROCESSOR" \notin borrowed'
             /\ borrowed' = borrowed
             /\ current' = NoTask]_vars
    /\ [][RunLoopIdle => (last'.op = "fetch" /\ ~panicked')]_vars

\* C15 witness: the only task has exited and the run loop has found the ready
\* queue empty.
C15_Witness ==
    /\ RunLoopIdle
    /\ ready_queue = <<>>
    /\ borrowed = {}
    /\ status[0] = "Exited"

\* batch manager: no task other than the current one is Ready
BatchExhausted ==
    task_mod = "batch" /\ tm_started /\ \A i \in Apps \ {tm_current} : tm_status[i] # "Ready"

\* process kernel: no task is Ready
ProcessExhausted == task_mod = "process" /\ \A t \in Pids : status[t] # "Ready"

\* the current task of the batch manager exits
TmExitStep == last'.op = "exit" /\ tm_exit_current_and_run_next

\* the run loop of the process kernel takes an iteration
RunLoopStep == last'.op = "fetch" /\ run_tasks

\* C16 as stated: whenever the current task has given up the core and the
\* kernel looks for the next task while none is Ready, the kernel stops with
\* a panic.
C16_ExhaustionFatal ==
    [][((TmExitStep /\ BatchExhausted) \/ (RunLoopStep /\ ProcessExhausted))
          => panicked']_vars

\* C16 amended: in the batch task manager exhaustion is fatal: the exit of the
\* current task panics exactly when no other task is Ready, a suspension never
\* panics (the task that yields is Ready itself), and after a panic nothing
\* runs.  In the process kernel exhaustion is not fatal: the run loop that
\* finds no Ready task returns nothing and goes on without a panic.
C16_ExhaustionFatalInBatchOnly ==
    /\ [][TmExitStep => (panicked' <=> BatchExhausted)]_vars
    /\ [][(last'.op = "suspend" /\ tm_suspend_current_and_run_next) => ~panicked']_vars
    /\ [][~panicked]_vars
    /\ [][(RunLoopStep /\ ProcessExhausted) =>
             (~panicked' /\ last'.ret = NoTask /\ current' = NoTask)]_vars

\* C16 witness: the batch manager has panicked in the exit of the last task
\* left, after the other task had run and exited.
C16_Witness ==
    /\ task_mod = "batch"
    /\ panicked
    /\ last.op = "exit"
    /\ \A i \in Apps \ {tm_current} : tm_status[i] = "Exited" /\ tm_time[i] # <<>>

\* C17: no exclusive-access guard is held when the context-switch primitive
\* is invoked: the guards recorded at the last invocation are none, on the
\* run loop dispatch, the schedule back to idle, the first-task start and the
\* next-task switch, and none is left held in the context switched to.
C17_NoGuardAtSwitch == switch_held = {} /\ borrowed = {}

\* C17 witness: the process kernel has dispatched a task from the run loop
\* and the task has scheduled back to idle, two switches with no guard held.
C17_Witness ==
    /\ task_mod = "process"
    /\ last.op = "suspend"
    /\ current = NoTask
    /\ ready_queue # <<>>
    /\ switch_held = {}

\* a step of the batch manager that dispatches a task, which is tm_current'
TmDispatchStep ==
    /\ task_mod = "batch"
    /\ last'.op \in {"run_first_task", "suspend", "exit"}
    /\ ~panicked'

\* the run loop dispatches task t, which has run before: it is the task that
\* has just yielded and was put at the back of the ready queue
RedispatchStep(t) ==
    /\ task_mod = "process"
    /\ last.op = "suspend"
    /\ ready_queue # <<>>
    /\ ready_queue[Len(ready_queue)] = t
    /\ last'.op = "fetch"
    /\ last'.ret = t

\* C18 as stated: every dispatch leaves the first-scheduled timestamp of the
\* dispatched task recorded, the first task run included, and a dispatch of a
\* task that has a timestamp or that has run before does not change it,
\* whatever the time source returns.
C18_FirstTimeRecordedOnce ==
    /\ [][TmDispatchStep =>
             /\ tm_time'[tm_current'] # <<>>
             /\ tm_time[tm_current'] # <<>> => tm_time'[tm_current'] = tm_time[tm_current']]_vars
    /\ [][\A t \in Pids : RedispatchStep(t) => time'[t] = time[t]]_vars

\* the status changes a task may make in one step: the life cycle of
\* TaskStatus, and the release of the control block of an Exited task
\* ("UnInit" stands for no control block), which follows the change to
\* Exited in the same handler when a task without a parent exits
StatusStepOk(a, b) ==
    \/ a = b
    \/ <<a, b>> \in {<<"UnInit", "Ready">>, <<"Ready", "Running">>,
                     <<"Running", "Ready">>, <<"Running", "Exited">>,
                     <<"Exited", "UnInit">>, <<"Running", "UnInit">>}

AtMostOneRunning ==
    /\ Cardinality({p \in Pids : status[p] = "Running"}) <= 1
    /\ Cardinality({i \in Apps : tm_status[i] = "Running"}) <= 1

\* C19: the status of a task changes only along UnInit -> Ready -> Running ->
\* {Ready | Exited}: Running is entered from Ready only, Ready and Exited
\* from Running only (Ready also at creation), an Exited task is never Ready
\* or Running again (its control block can only be released), and at most
\* one task is Running at any time.
C19_StatusLifeCycle ==
    /\ [][/\ \A p \in Pids : StatusStepOk(status[p], status'[p])
          /\ \A i \in Apps : StatusStepOk(tm_status[i], tm_status'[i])]_vars
    /\ []AtMostOneRunning

\* C19 witness: a child was created, ran and exited, and its parent is
\* Running again.
C19_Witness ==
    /\ task_mod = "process"
    /\ \E p \in Pids \ {0} : status[p] = "Exited" /\ parent[p] = 0
    /\ status[0] = "Running"
    /\ current = 0

\* the number of holders of task p among the ready queue, the current slot
\* and, for an Exited task, the children lists
Holders(p) ==
    Occurrences(ready_queue, p)
    + (IF current = p THEN 1 ELSE 0)
    + (IF status[p] = "Exited"
       THEN Cardinality({<<o, i>> \in Pids \X (1 .. (MaxPid + 1)) :
                            i <= Len(children[o]) /\ children[o][i] = p})
       ELSE 0)

Zombies == {c \in Pids : status[c] = "Exited" /\ \E o \in Pids : c \in Range(children[o])}

\* C21: the reference-count assertion of sys_waitpid never fails: no run of
\* waitpid ends in a panic, and every exited child wait can select has one
\* owning reference, that of its parent's children list: it is neither in
\* the ready queue nor in the current slot.
C21_WaitAssertionHolds ==
    /\ ~(panicked /\ last.op = "waitpid")
    /\ \A c \in Zombies :
          /\ StrongCount(c) = 1
          /\ Occurrences(ready_queue, c) = 0
          /\ current # c

\* C21 witness: wait has reaped an exited child and returned its pid, while
\* another child of the caller is still in the ready queue.
C21_Witness ==
    /\ task_mod = "process"
    /\ ~panicked
    /\ last.op = "waitpid"
    /\ last.ret >= 0
    /\ current # NoTask
    /\ \E c \in Range(children[current]) : Occurrences(ready_queue, c) = 1

\* position of task t in the queue q
IndexOf(q, t) == CHOOSE i \in 1 .. Len(q) : q[i] = t

C23_StrideNonDecreasing ==
    [][\A t \in Pids :
          (status[t] # "UnInit" /\ status'[t] # "UnInit") => stride'[t] >= stride[t]]_vars

\* C24 as stated: every priority set_priority accepts gives a pass that is
\* strictly positive, and every add strictly increases the stride of the
\* task it enqueues.
C24_PassPositive ==
    /\ [][(last'.op = "set_priority" /\ last'.ret # -1) => pass'[current] > 0]_vars
    /\ [][\A t \in Pids : Added(t) => stride'[t] > StrideBefore(t)]_vars

\* the tasks and their priorities are fixed: the step taken last is a fetch
\* of the run loop or the suspension of the task that ran
TasksFixed == last.op \in {"fetch", "suspend"}

\* C25 as stated: no task monopolizes the core: once the set of tasks and
\* their priorities, all accepted by set_priority, stay fixed, the run loop
\* going on and every task that runs being add-ed back, every task in the
\* ready queue is fetched in the end.
C25_EveryQueuedTaskFetched ==
    (<>[]TasksFixed) => \A t \in Pids : (t \in Range(ready_queue)) ~> (current = t)

\* the difference between the largest and the smallest stride of the tasks
StrideSpreadWithin(d) == \A t, u \in Live : stride[t] - stride[u] <= d

\* the step is an add whose sum stride + pass overflows isize
OverflowingAdd ==
    /\ current # NoTask
    /\ last'.op = "suspend"
    /\ AddOverflows(stride[current], pass[current])

\* C26: stride spread bound: a fixed set of tasks with stride 0 and priority
\* >= 2 having been add-ed once each, and every fetched task being add-ed
\* back after it runs, the difference between the largest and the smallest
\* stride is at most BIG_STRIDE / 2 at the start and after every step, as
\* long as no add overflows the stride.
C26_StrideSpreadBound ==
    /\ StrideSpreadWithin(BIG_STRIDE \div 2)
    /\ [][(StrideSpreadWithin(BIG_STRIDE \div 2) /\ ~OverflowingAdd)
             => StrideSpreadWithin(BIG_STRIDE \div 2)']_vars

\* C26 witness: three tasks have taken turns, the task that yielded last has
\* a stride that is BIG_STRIDE / 2 above the smallest one, and the smallest
\* stride has grown beyond what the first add gives.
C26_Witness ==
    /\ last.op = "suspend"
    /\ ~panicked
    /\ Cardinality(Live) = 3
    /\ StrideSpreadWithin(BIG_STRIDE \div 2)
    /\ \E t, u \in Live : stride[t] - stride[u] = BIG_STRIDE \div 2
    /\ \A t \in Live : stride[t] > BIG_STRIDE \div 2

==========================================================================
